---- MODULE Spec2Model ----
(***************************************************************************)
(* The transfer service of src/transfer.py: the three HTTP handlers        *)
(* (create_new_account, get_account_balance, make_transfer) as processes   *)
(* whose steps are their database round-trips, over a store made of the    *)
(* account table and the append-only transfer table.                       *)
(*                                                                         *)
(* The SQL schema (tables, keys, the account_metadata function) is not     *)
(* among the Python sources; it is modelled from the specification: a      *)
(* primary key on transfer (source, index), foreign keys from transfer to  *)
(* account, the service account as a row of account, and                   *)
(* account_metadata(id, t) = {balance, next_transfer_index} as of t, with  *)
(* no row for an unknown account. Timestamps are logical: the created_at   *)
(* of a transfer is its position in commit order, and "now" is the number  *)
(* of transfers committed so far.                                          *)
(***************************************************************************)
EXTENDS Integers, Sequences, FiniteSets, TLC

\* ------------------------------------------------------------------ bounds

\* The requests served, the account identifiers besides the service
\* account's, and the largest amount a request may carry.
MaxReqs == 3
MaxIds == 2
MaxAmount == 2

\* Settings.database_max_pool_size, read from the environment.
database_max_pool_size == 3

\* --------------------------------------------------------------- constants

SERVICE_ACCOUNT_ID == 0

Reqs == 1..MaxReqs
Ids == 0..MaxIds
Amounts == (0 - 1)..MaxAmount

NoRow == [none |-> TRUE]
NoReq == [op |-> "none"]
NoTx == [open |-> FALSE, accounts |-> {}, transfers |-> {}]
NoResult == [none |-> TRUE]
NoRead == [none |-> TRUE]

\* ------------------------------------------------------------------- state

VARIABLES
    accounts,   \* the committed rows of table account (their ids)
    log,        \* the committed rows of table transfer, in commit order
    free,       \* the connections of the pool that are not acquired
    pc,         \* pc[r]: where request r stands in its handler
    req,        \* req[r]: the body of the request in flight
    idx,        \* idx[r]: the next_transfer_index the handler read
    ts,         \* ts[r]: the timestamp the handler got from its write
    tx,         \* tx[r]: the open transaction of a create request
    outcome,    \* outcome[r]: "ok" or the kind of the error response
    result,     \* result[r]: the body of a successful response
    trips,      \* trips[r]: database round-trips request r has issued
    read_at     \* read_at[r]: what get-balance request r asked for, and the
                \* numbers of transfers and accounts committed when it read

vars == <<accounts, log, free, pc, req, idx, ts, tx, outcome, result, trips, read_at>>

\* ------------------------------------------------------------ the database

\* The amounts of the rows of l, as of t, that credit (incoming) or debit id.
RECURSIVE SumAmounts(_, _, _, _)
SumAmounts(l, id, t, incoming) ==
    IF l = <<>> THEN 0
    ELSE LET row == Head(l)
             hit == /\ row.created_at <= t
                    /\ IF incoming THEN row.destination = id ELSE row.source = id
         IN (IF hit THEN row.amount ELSE 0) + SumAmounts(Tail(l), id, t, incoming)

\* Mutant of AccountBalance: the debits are left out.
AccountBalanceCreditsOnly(l, id, t) == SumAmounts(l, id, t, TRUE)

\* balance(A) = sum(amount where destination = A) - sum(amount where source = A)
AccountBalance(l, id, t) ==
    SumAmounts(l, id, t, TRUE) - SumAmounts(l, id, t, FALSE)

\* nextIndex = 1 + max(per-source index), or 0 when the account sent nothing.
NextTransferIndex(l, id, t) ==
    LET used == {l[i].index : i \in {j \in 1..Len(l) :
                     l[j].source = id /\ l[j].created_at <= t}}
    IN IF used = {} THEN 0
       ELSE 1 + (CHOOSE m \in used : \A k \in used : k <= m)

\* SELECT balance, next_transfer_index FROM account_metadata($1, $2)
account_metadata(accts, l, id, t) ==
    IF id \notin accts THEN NoRow
    ELSE [balance |-> AccountBalance(l, id, t),
          next_transfer_index |-> NextTransferIndex(l, id, t)]

\* datetime.now(), on the logical clock.
Now == Len(log)

\* fetch_account_meta(account_id, timestamp) against the committed store.
fetch_account_meta(id, t) == account_metadata(accounts, log, id, t)

\* SELECT EXISTS (SELECT id FROM account WHERE id = $1)
check_account_exists(id) == id \in accounts

\* The row INSERT INTO transfer (source, index, destination, amount) writes;
\* created_at is the store's, given at commit.
TransferRow(source_id, index, destination_id, amount) ==
    [source |-> source_id, index |-> index,
     destination |-> destination_id, amount |-> amount]

Stamp(row, t) ==
    [source |-> row.source, index |-> row.index, destination |-> row.destination,
     amount |-> row.amount, created_at |-> t]

\* The primary key of table transfer: (source, index).
KeyTaken(l, row) ==
    \E i \in 1..Len(l) : l[i].source = row.source /\ l[i].index = row.index

\* The foreign keys of table transfer: source and destination are accounts.
ForeignKeysHold(accts, row) ==
    row.source \in accts /\ row.destination \in accts

\* The rows other open transactions have written and not yet committed.
PendingTransfers(r) == UNION {tx[o].transfers : o \in Reqs \ {r}}

PendingAccounts(r) == UNION {tx[o].accounts : o \in Reqs \ {r}}

\* An INSERT waits for an uncommitted row with the same key to commit or abort.
TransferInsertWaits(r, row) ==
    \E p \in PendingTransfers(r) : p.source = row.source /\ p.index = row.index

\* ------------------------------------------------------------------- Init

Init ==
    /\ accounts = {SERVICE_ACCOUNT_ID}
    /\ log = <<>>
    /\ free = database_max_pool_size
    /\ pc = [r \in Reqs |-> "idle"]
    /\ req = [r \in Reqs |-> NoReq]
    /\ idx = [r \in Reqs |-> 0 - 1]
    /\ ts = [r \in Reqs |-> 0 - 1]
    /\ tx = [r \in Reqs |-> NoTx]
    /\ outcome = [r \in Reqs |-> "none"]
    /\ result = [r \in Reqs |-> NoResult]
    /\ trips = [r \in Reqs |-> 0]
    /\ read_at = [r \in Reqs |-> NoRead]

\* A handler ends: the response is sent and the request's locals are gone.
Respond(r, kind, body) ==
    /\ pc' = [pc EXCEPT ![r] = "done"]
    /\ outcome' = [outcome EXCEPT ![r] = kind]
    /\ result' = [result EXCEPT ![r] = body]
    /\ req' = [req EXCEPT ![r] = NoReq]
    /\ idx' = [idx EXCEPT ![r] = 0 - 1]
    /\ ts' = [ts EXCEPT ![r] = 0 - 1]

\* A handler goes on to its next await.
Goto(r, label) ==
    /\ pc' = [pc EXCEPT ![r] = label]
    /\ UNCHANGED <<outcome, result, req>>

\* A statement run on the pool takes a free connection for its duration.
PoolRoundTrip(r) ==
    /\ free >= 1
    /\ trips' = [trips EXCEPT ![r] = @ + 1]

\* ------------------------------------------------------------ the requests

TransferRequests ==
    [op : {"transfer"}, source : Ids, destination : Ids, amount : Amounts]

CreateRequests ==
    [op : {"create"}, account_id : Ids, balance : Amounts]

BalanceRequests ==
    [op : {"balance"}, account_id : Ids]

\* Request r reaches the service with body q. Slots are interchangeable, so
\* they are taken in order; and a handler's first step touches nothing shared,
\* so a request is taken once the handlers of the earlier ones have started.
Receive(r, q) ==
    /\ pc[r] = "idle"
    /\ \A o \in Reqs : o < r => pc[o] \notin {"idle", "received"}
    /\ pc' = [pc EXCEPT ![r] = "received"]
    /\ req' = [req EXCEPT ![r] = q]
    /\ UNCHANGED <<accounts, log, free, idx, ts, tx, outcome, result, trips>>
    /\ UNCHANGED read_at

receive(r) ==
    \E q \in TransferRequests \cup CreateRequests \cup BalanceRequests : Receive(r, q)

\* ---------------------------------------------------------- make_transfer

\* Mutant of PreCheck: only negative amounts are refused.
PreCheckAllowsZero(q) ==
    IF q.amount < 0 THEN "InvalidAmount"
    ELSE IF q.source = SERVICE_ACCOUNT_ID THEN "ServiceAccountAsSource"
    ELSE IF q.source = q.destination THEN "SelfTransfer"
    ELSE "pass"

\* Mutant of PreCheck: the self-transfer check runs before the service check.
PreCheckSwapped(q) ==
    IF q.amount <= 0 THEN "InvalidAmount"
    ELSE IF q.source = q.destination THEN "SelfTransfer"
    ELSE IF q.source = SERVICE_ACCOUNT_ID THEN "ServiceAccountAsSource"
    ELSE "pass"

\* The checks make_transfer runs before its first await.
PreCheck(q) ==
    IF q.amount <= 0 THEN "InvalidAmount"
    ELSE IF q.source = SERVICE_ACCOUNT_ID THEN "ServiceAccountAsSource"
    ELSE IF q.source = q.destination THEN "SelfTransfer"
    ELSE "pass"

\* Mutant of DestinationCheck: the result of the existence query is ignored.
DestinationCheckOmitted(destination_exists) == "pass"

\* if not destination_exists: raise BadRequest('destination account ... not found')
DestinationCheck(destination_exists) ==
    IF ~destination_exists THEN "DestinationNotFound" ELSE "pass"

\* Mutant of SourceCheck: the funds check is left out.
SourceCheckNoFunds(source_meta, amount) ==
    IF source_meta = NoRow THEN "SourceNotFound" ELSE "pass"

\* Mutant of SourceCheck: the funds check is off by one.
SourceCheckOffByOne(source_meta, amount) ==
    IF source_meta = NoRow THEN "SourceNotFound"
    ELSE IF source_meta.balance + 1 < amount THEN "InsufficientFunds"
    ELSE "pass"

\* The checks on the row fetch_account_meta(request.source) returned.
SourceCheck(source_meta, amount) ==
    IF source_meta = NoRow THEN "SourceNotFound"
    ELSE IF source_meta.balance < amount THEN "InsufficientFunds"
    ELSE "pass"

\* Mutant of TransferIndex: the index after the next one is used.
TransferIndexSkips(source_meta) == source_meta.next_transfer_index + 1

\* index=source_meta['next_transfer_index']
TransferIndex(source_meta) == source_meta.next_transfer_index

\* An exception no handler of the route catches: generic_exception_handler
\* answers 500 'Internal Server Error'.
generic_exception_handler(r) == Respond(r, "Internal", NoResult)

\* Mutant of make_transfer_begin: the handler queries the store before it
\* validates the request body.
make_transfer_begin_late(r) ==
    /\ pc[r] = "received"
    /\ req[r].op = "transfer"
    /\ Goto(r, "check_destination")
    /\ UNCHANGED <<accounts, log, free, tx, trips, idx, ts>>
    /\ UNCHANGED read_at

\* The handler runs to its first await, or raises.
make_transfer_begin(r) ==
    /\ pc[r] = "received"
    /\ req[r].op = "transfer"
    /\ IF PreCheck(req[r]) # "pass"
       THEN Respond(r, PreCheck(req[r]), NoResult)
       ELSE Goto(r, "check_destination") /\ UNCHANGED <<idx, ts>>
    /\ UNCHANGED <<accounts, log, free, tx, trips>>
    /\ UNCHANGED read_at

\* destination_exists = await check_account_exists(request.destination)
make_transfer_check_destination(r) ==
    /\ pc[r] = "check_destination"
    /\ PoolRoundTrip(r)
    /\ LET kind == DestinationCheck(check_account_exists(req[r].destination))
       IN IF kind # "pass"
          THEN Respond(r, kind, NoResult)
          ELSE Goto(r, "fetch_source_meta") /\ UNCHANGED <<idx, ts>>
    /\ UNCHANGED <<accounts, log, free, tx>>
    /\ UNCHANGED read_at

\* source_meta = await fetch_account_meta(request.source)
make_transfer_fetch_source_meta(r) ==
    /\ pc[r] = "fetch_source_meta"
    /\ PoolRoundTrip(r)
    /\ LET source_meta == fetch_account_meta(req[r].source, Now)
           kind == SourceCheck(source_meta, req[r].amount)
       IN IF kind # "pass"
          THEN Respond(r, kind, NoResult)
          ELSE /\ Goto(r, "insert_transfer")
               /\ idx' = [idx EXCEPT ![r] = TransferIndex(source_meta)]
               /\ UNCHANGED ts
    /\ UNCHANGED <<accounts, log, free, tx>>
    /\ UNCHANGED read_at

\* Mutant of make_transfer_insert: source_id and destination_id are passed
\* the wrong way round.
make_transfer_insert_swapped(r) ==
    /\ pc[r] = "insert_transfer"
    /\ PoolRoundTrip(r)
    /\ LET row == TransferRow(req[r].destination, idx[r], req[r].source, req[r].amount)
       IN /\ ~TransferInsertWaits(r, row)
          /\ IF KeyTaken(log, row) \/ ~ForeignKeysHold(accounts, row)
             THEN generic_exception_handler(r) /\ UNCHANGED log
             ELSE /\ log' = Append(log, Stamp(row, Len(log) + 1))
                  /\ ts' = [ts EXCEPT ![r] = Len(log) + 1]
                  /\ Goto(r, "read_new_source")
                  /\ UNCHANGED idx
    /\ UNCHANGED <<accounts, free, tx>>
    /\ UNCHANGED read_at

\* timestamp = await insert_transfer(..., conn=pool)
make_transfer_insert(r) ==
    /\ pc[r] = "insert_transfer"
    /\ PoolRoundTrip(r)
    /\ LET row == TransferRow(req[r].source, idx[r], req[r].destination, req[r].amount)
       IN /\ ~TransferInsertWaits(r, row)
          /\ IF KeyTaken(log, row) \/ ~ForeignKeysHold(accounts, row)
             THEN generic_exception_handler(r) /\ UNCHANGED log
             ELSE /\ log' = Append(log, Stamp(row, Len(log) + 1))
                  /\ ts' = [ts EXCEPT ![r] = Len(log) + 1]
                  /\ Goto(r, "read_new_source")
                  /\ UNCHANGED idx
    /\ UNCHANGED <<accounts, free, tx>>
    /\ UNCHANGED read_at

\* new_source_meta = await fetch_account_meta(request.source, timestamp)
make_transfer_read_new_source(r) ==
    /\ pc[r] = "read_new_source"
    /\ PoolRoundTrip(r)
    /\ pc' = [pc EXCEPT ![r] = "read_new_destination"]
    /\ result' = [result EXCEPT ![r] =
           [source_balance |-> fetch_account_meta(req[r].source, ts[r]).balance]]
    /\ UNCHANGED <<accounts, log, free, req, idx, ts, tx, outcome>>
    /\ UNCHANGED read_at

\* new_destination_meta = await fetch_account_meta(request.destination, timestamp)
make_transfer_read_new_destination(r) ==
    /\ pc[r] = "read_new_destination"
    /\ PoolRoundTrip(r)
    /\ Respond(r, "ok",
           [source_balance |-> result[r].source_balance,
            destination_balance |->
                fetch_account_meta(req[r].destination, ts[r]).balance])
    /\ UNCHANGED <<accounts, log, free, tx>>
    /\ UNCHANGED read_at

make_transfer(r) ==
    \/ make_transfer_begin(r)
    \/ make_transfer_check_destination(r)
    \/ make_transfer_fetch_source_meta(r)
    \/ make_transfer_insert(r)
    \/ make_transfer_read_new_source(r)
    \/ make_transfer_read_new_destination(r)

\* ---------------------------------------------------- get_account_balance

\* The handler runs to its first await.
get_account_balance_begin(r) ==
    /\ pc[r] = "received"
    /\ req[r].op = "balance"
    /\ Goto(r, "fetch_meta")
    /\ UNCHANGED <<accounts, log, free, tx, trips, idx, ts>>
    /\ UNCHANGED read_at

\* Mutant of get_account_balance_fetch: an identifier that is no account is
\* made one on its first read.
get_account_balance_fetch_creates(r) ==
    /\ pc[r] = "fetch_meta"
    /\ PoolRoundTrip(r)
    /\ LET account_meta == fetch_account_meta(req[r].account_id, Now)
       IN Respond(r, "ok", [account_id |-> req[r].account_id,
                            balance |-> IF account_meta = NoRow THEN 0
                                        ELSE account_meta.balance])
    /\ accounts' = accounts \cup {req[r].account_id}
    /\ UNCHANGED <<log, free, tx>>
    /\ read_at' = [read_at EXCEPT ![r] =
           [account_id |-> req[r].account_id,
            transfers |-> Len(log), accounts |-> Cardinality(accounts)]]

\* Mutant of get_account_balance_fetch: a missing row is not told from an
\* account without transfers.
get_account_balance_fetch_default(r) ==
    /\ pc[r] = "fetch_meta"
    /\ PoolRoundTrip(r)
    /\ LET account_meta == fetch_account_meta(req[r].account_id, Now)
       IN Respond(r, "ok", [account_id |-> req[r].account_id,
                            balance |-> IF account_meta = NoRow THEN 0
                                        ELSE account_meta.balance])
    /\ UNCHANGED <<accounts, log, free, tx>>
    /\ read_at' = [read_at EXCEPT ![r] =
           [account_id |-> req[r].account_id,
            transfers |-> Len(log), accounts |-> Cardinality(accounts)]]

\* account_meta = await fetch_account_meta(account_id)
get_account_balance_fetch(r) ==
    /\ pc[r] = "fetch_meta"
    /\ PoolRoundTrip(r)
    /\ LET account_meta == fetch_account_meta(req[r].account_id, Now)
       IN IF account_meta = NoRow
          THEN Respond(r, "NotFound", NoResult)
          ELSE Respond(r, "ok", [account_id |-> req[r].account_id,
                                 balance |-> account_meta.balance])
    /\ UNCHANGED <<accounts, log, free, tx>>
    /\ read_at' = [read_at EXCEPT ![r] =
           [account_id |-> req[r].account_id,
            transfers |-> Len(log), accounts |-> Cardinality(accounts)]]

get_account_balance(r) ==
    \/ get_account_balance_begin(r)
    \/ get_account_balance_fetch(r)

\* ----------------------------------------------------- create_new_account

\* if request.balance < 0: raise BadRequest(...)
BalanceCheck(balance) ==
    IF balance < 0 THEN "NegativeBalance" ELSE "pass"

\* Mutant of ExistsCheck: the result of the existence query is ignored.
ExistsCheckOmitted(account_exists) == "pass"

\* if account_exists: raise BadRequest(...)
ExistsCheck(account_exists) ==
    IF account_exists THEN "AlreadyExists" ELSE "pass"

\* index=service_meta['next_transfer_index']
SeedIndex(service_meta) == service_meta.next_transfer_index

\* Leaving "async with conn.transaction()" and "pool.acquire()" on an
\* exception: the transaction rolls back and the connection is released.
Rollback(r) ==
    /\ tx' = [tx EXCEPT ![r] = NoTx]
    /\ free' = free + 1

create_new_account_begin(r) ==
    /\ pc[r] = "received"
    /\ req[r].op = "create"
    /\ IF BalanceCheck(req[r].balance) # "pass"
       THEN Respond(r, BalanceCheck(req[r].balance), NoResult)
       ELSE Goto(r, "check_exists") /\ UNCHANGED <<idx, ts>>
    /\ UNCHANGED <<accounts, log, free, tx, trips>>
    /\ UNCHANGED read_at

\* account_exists = await check_account_exists(request.account_id)
create_new_account_check_exists(r) ==
    /\ pc[r] = "check_exists"
    /\ PoolRoundTrip(r)
    /\ LET kind == ExistsCheck(check_account_exists(req[r].account_id))
       IN IF kind # "pass"
          THEN Respond(r, kind, NoResult)
          ELSE Goto(r, "acquire") /\ UNCHANGED <<idx, ts>>
    /\ UNCHANGED <<accounts, log, free, tx>>
    /\ UNCHANGED read_at

\* async with pool.acquire() as conn: async with conn.transaction():
\* the request waits for a free connection and keeps it.
create_user_acquire(r) ==
    /\ pc[r] = "acquire"
    /\ free >= 1
    /\ free' = free - 1
    /\ tx' = [tx EXCEPT ![r] = [open |-> TRUE, accounts |-> {}, transfers |-> {}]]
    /\ Goto(r, "insert_account")
    /\ UNCHANGED <<accounts, log, idx, ts, trips>>
    /\ UNCHANGED read_at

\* Mutant of create_user_insert_account: the insert runs outside the
\* transaction, so the account row is committed at once.
create_user_insert_account_autocommit(r) ==
    /\ pc[r] = "insert_account"
    /\ req[r].account_id \notin PendingAccounts(r)
    /\ trips' = [trips EXCEPT ![r] = @ + 1]
    /\ IF req[r].account_id \in accounts
       THEN Rollback(r) /\ generic_exception_handler(r) /\ UNCHANGED accounts
       ELSE /\ accounts' = accounts \cup {req[r].account_id}
            /\ UNCHANGED <<free, idx, tx>>
            /\ IF req[r].balance > 0
               THEN Goto(r, "fetch_service_meta") /\ UNCHANGED ts
               ELSE Goto(r, "commit") /\ ts' = [ts EXCEPT ![r] = Now]
    /\ UNCHANGED log
    /\ UNCHANGED read_at

\* Mutant of create_user_insert_account: inserting an identifier that is
\* already an account raises nothing and the request goes on.
create_user_insert_account_no_conflict(r) ==
    /\ pc[r] = "insert_account"
    /\ req[r].account_id \notin PendingAccounts(r)
    /\ trips' = [trips EXCEPT ![r] = @ + 1]
    /\ tx' = [tx EXCEPT ![r].accounts = {req[r].account_id}]
    /\ UNCHANGED <<free, idx>>
    /\ IF req[r].balance > 0
       THEN Goto(r, "fetch_service_meta") /\ UNCHANGED ts
       ELSE Goto(r, "commit") /\ ts' = [ts EXCEPT ![r] = Now]
    /\ UNCHANGED <<accounts, log>>
    /\ UNCHANGED read_at

\* await insert_account(account_id, conn); then, with amount = 0,
\* return datetime.now()
create_user_insert_account(r) ==
    /\ pc[r] = "insert_account"
    /\ req[r].account_id \notin PendingAccounts(r)
    /\ trips' = [trips EXCEPT ![r] = @ + 1]
    /\ IF req[r].account_id \in accounts
       THEN Rollback(r) /\ generic_exception_handler(r)
       ELSE /\ tx' = [tx EXCEPT ![r].accounts = {req[r].account_id}]
            /\ UNCHANGED <<free, idx>>
            /\ IF req[r].balance > 0
               THEN Goto(r, "fetch_service_meta") /\ UNCHANGED ts
               ELSE Goto(r, "commit") /\ ts' = [ts EXCEPT ![r] = Now]
    /\ UNCHANGED <<accounts, log>>
    /\ UNCHANGED read_at

\* service_meta = await fetch_account_meta(SERVICE_ACCOUNT_ID): run on the
\* pool, not on conn, so it needs a second connection.
create_user_fetch_service_meta(r) ==
    /\ pc[r] = "fetch_service_meta"
    /\ PoolRoundTrip(r)
    /\ idx' = [idx EXCEPT ![r] = SeedIndex(fetch_account_meta(SERVICE_ACCOUNT_ID, Now))]
    /\ Goto(r, "insert_seed")
    /\ UNCHANGED <<accounts, log, free, ts, tx>>
    /\ UNCHANGED read_at

\* return await insert_transfer(source_id=SERVICE_ACCOUNT_ID, ..., conn=conn)
create_user_insert_seed(r) ==
    /\ pc[r] = "insert_seed"
    /\ trips' = [trips EXCEPT ![r] = @ + 1]
    /\ LET row == TransferRow(SERVICE_ACCOUNT_ID, idx[r], req[r].account_id,
                              req[r].balance)
       IN /\ ~TransferInsertWaits(r, row)
          /\ IF \/ KeyTaken(log, row)
                \/ ~ForeignKeysHold(accounts \cup tx[r].accounts, row)
             THEN Rollback(r) /\ generic_exception_handler(r)
             ELSE /\ tx' = [tx EXCEPT ![r].transfers = {row}]
                  /\ Goto(r, "commit")
                  /\ UNCHANGED <<free, idx, ts>>
    /\ UNCHANGED <<accounts, log>>
    /\ UNCHANGED read_at

\* Leaving the transaction block normally: the rows commit together and the
\* connection returns to the pool.
create_user_commit(r) ==
    /\ pc[r] = "commit"
    /\ accounts' = accounts \cup tx[r].accounts
    /\ IF tx[r].transfers # {}
       THEN /\ log' = Append(log, Stamp(CHOOSE row \in tx[r].transfers : TRUE,
                                        Len(log) + 1))
            /\ ts' = [ts EXCEPT ![r] = Len(log) + 1]
       ELSE UNCHANGED <<log, ts>>
    /\ tx' = [tx EXCEPT ![r] = NoTx]
    /\ free' = free + 1
    /\ Goto(r, "read_new_account")
    /\ UNCHANGED <<idx, trips>>
    /\ UNCHANGED read_at

\* new_account_meta = await fetch_account_meta(request.account_id, timestamp)
create_new_account_read(r) ==
    /\ pc[r] = "read_new_account"
    /\ PoolRoundTrip(r)
    /\ Respond(r, "ok",
           [account_id |-> req[r].account_id,
            balance |-> fetch_account_meta(req[r].account_id, ts[r]).balance])
    /\ UNCHANGED <<accounts, log, free, tx>>
    /\ UNCHANGED read_at

create_new_account(r) ==
    \/ create_new_account_begin(r)
    \/ create_new_account_check_exists(r)
    \/ create_user_acquire(r)
    \/ create_user_insert_account(r)
    \/ create_user_fetch_service_meta(r)
    \/ create_user_insert_seed(r)
    \/ create_user_commit(r)
    \/ create_new_account_read(r)

\* -------------------------------------------------------------------- Spec

Next == \E r \in Reqs :
    \/ receive(r)
    \/ make_transfer(r)
    \/ get_account_balance(r)
    \/ create_new_account(r)

Spec == Init /\ [][Next]_vars

\* ------------------------------------------------------ failing store calls

\* An await of create_new_account raises (the store is unavailable, the
\* connection is lost): inside the transaction block the transaction rolls
\* back and the connection is released; the exception handler answers 500.
create_new_account_fail(r) ==
    /\ req[r].op = "create"
    /\ pc[r] \in {"check_exists", "acquire", "insert_account", "fetch_service_meta",
                  "insert_seed", "commit", "read_new_account"}
    /\ IF tx[r].open THEN Rollback(r) ELSE UNCHANGED <<tx, free>>
    /\ generic_exception_handler(r)
    /\ UNCHANGED <<accounts, log, trips>>
    /\ UNCHANGED read_at

NextFaults == \E r \in Reqs :
    \/ receive(r)
    \/ make_transfer(r)
    \/ get_account_balance(r)
    \/ create_new_account(r)
    \/ create_new_account_fail(r)

SpecFaults == Init /\ [][NextFaults]_vars

\* ------------------------------------------------- scheduling and pool sizes

\* The state after on_startup with the pool's max_size set to any size up to
\* database_max_pool_size.
InitAnyPool ==
    /\ accounts = {SERVICE_ACCOUNT_ID}
    /\ log = <<>>
    /\ free \in 1..database_max_pool_size
    /\ pc = [r \in Reqs |-> "idle"]
    /\ req = [r \in Reqs |-> NoReq]
    /\ idx = [r \in Reqs |-> 0 - 1]
    /\ ts = [r \in Reqs |-> 0 - 1]
    /\ tx = [r \in Reqs |-> NoTx]
    /\ outcome = [r \in Reqs |-> "none"]
    /\ result = [r \in Reqs |-> NoResult]
    /\ trips = [r \in Reqs |-> 0]
    /\ read_at = [r \in Reqs |-> NoRead]

\* The steps of the handler of request r.
handler(r) ==
    \/ make_transfer(r)
    \/ get_account_balance(r)
    \/ create_new_account(r)

\* The event loop runs every handler that can go on, and the store answers
\* every statement that does not wait: a handler step that stays possible is
\* taken. Requests arrive as the clients please.
Scheduling == \A r \in Reqs : WF_vars(handler(r))

SpecFair == InitAnyPool /\ [][Next]_vars /\ Scheduling

\* ------------------------------------------------- the two-transfers scenario

\* The store after: create account 1 with balance 100, create accounts 2 and
\* 3 with balance 0. Then three requests run concurrently: transfer 60 from 1
\* to 2, transfer 60 from 1 to 3, and a balance query for 1.
ScenarioRequests ==
    <<[op |-> "transfer", source |-> 1, destination |-> 2, amount |-> 60],
      [op |-> "transfer", source |-> 1, destination |-> 3, amount |-> 60],
      [op |-> "balance", account_id |-> 1]>>

InitScenario ==
    /\ accounts = {SERVICE_ACCOUNT_ID, 1, 2, 3}
    /\ log = <<Stamp(TransferRow(SERVICE_ACCOUNT_ID, 0, 1, 100), 1)>>
    /\ free = database_max_pool_size
    /\ pc = [r \in Reqs |-> "idle"]
    /\ req = [r \in Reqs |-> NoReq]
    /\ idx = [r \in Reqs |-> 0 - 1]
    /\ ts = [r \in Reqs |-> 0 - 1]
    /\ tx = [r \in Reqs |-> NoTx]
    /\ outcome = [r \in Reqs |-> "none"]
    /\ result = [r \in Reqs |-> NoResult]
    /\ trips = [r \in Reqs |-> 0]
    /\ read_at = [r \in Reqs |-> NoRead]

receive_scenario(r) ==
    /\ r \in DOMAIN ScenarioRequests
    /\ Receive(r, ScenarioRequests[r])

NextScenario == \E r \in Reqs :
    \/ receive_scenario(r)
    \/ make_transfer(r)
    \/ get_account_balance(r)

SpecScenario == InitScenario /\ [][NextScenario]_vars

\* ------------------------------------------------------------------ claims

\* The derived balance of an account, over the whole committed log.
Balance(a) == AccountBalance(log, a, Now)

RECURSIVE SumBalances(_)
SumBalances(S) ==
    IF S = {} THEN 0
    ELSE LET a == CHOOSE x \in S : TRUE
         IN Balance(a) + SumBalances(S \ {a})

\* The positions in the log of the transfers with source a.
Outgoing(a) == {i \in 1..Len(log) : log[i].source = a}

\* The row a transfer request is about to append.
RowOf(r) == TransferRow(req[r].source, idx[r], req[r].destination, req[r].amount)

\* Request r takes a step of its handler.
Steps(r) == pc'[r] # pc[r]

\* C1: in every reachable state the derived balance of every account other
\* than the service account is >= 0.
C1_NonNegativeBalances ==
    \A a \in accounts \ {SERVICE_ACCOUNT_ID} : Balance(a) >= 0

\* An account has spent all it had while another transfer from it, which
\* passed the funds check on the old balance, is about to append.
C1_Witness ==
    \E a \in accounts \ {SERVICE_ACCOUNT_ID} :
        /\ Balance(a) = 0
        /\ Outgoing(a) # {}
        /\ \E r \in Reqs : pc[r] = "insert_transfer" /\ req[r].source = a

C3_GaplessIndexes ==
    \A a \in {log[i].source : i \in 1..Len(log)} :
        /\ {log[i].index : i \in Outgoing(a)} = 0..(Cardinality(Outgoing(a)) - 1)
        /\ \A i, j \in Outgoing(a) : i < j => log[i].index < log[j].index

\* Two transfers of one source are committed and a third request lost the
\* race for an index.
C3_Witness ==
    /\ \E a \in Ids : Cardinality(Outgoing(a)) >= 2
    /\ \E r \in Reqs : outcome[r] = "Internal"

\* C4 (as claimed): when both transfers of 60 from the account holding 100
\* have ended, exactly one succeeded, the other failed with
\* InsufficientFunds, and the source's balance is 40.
C4_OneWinsOtherInsufficient ==
    (pc[1] = "done" /\ pc[2] = "done") =>
        /\ \E w \in {1, 2} : \E l \in {1, 2} \ {w} :
               outcome[w] = "ok" /\ outcome[l] = "InsufficientFunds"
        /\ Balance(1) = 40

\* The append of request r is rejected: its (source, index) is taken.
AppendRejected(r) ==
    /\ pc[r] = "insert_transfer"
    /\ Steps(r)
    /\ KeyTaken(log, RowOf(r))

\* C5 (as claimed): a transfer request whose append is rejected because its
\* (source, index) is taken goes back to the metadata fetch and has no outcome
\* yet; it does not answer the caller with the conflict.
C5_ConflictRestartsValidation ==
    [][\A r \in Reqs : AppendRejected(r) =>
          /\ pc'[r] \in {"check_destination", "fetch_source_meta"}
          /\ outcome'[r] = "none"]_vars

\* Request r reads its source's metadata and the balance read is below the
\* requested amount.
ReadsShortBalance(r) ==
    /\ pc[r] = "fetch_source_meta"
    /\ Steps(r)
    /\ req[r].source \in accounts
    /\ Balance(req[r].source) < req[r].amount

\* C6: a transfer request whose amount is greater than the source's balance
\* when its metadata is read fails with InsufficientFunds, and no step of the
\* request up to that answer changes the transfer log or the accounts.
C6_InsufficientFundsNoRecord ==
    [][\A r \in Reqs :
          /\ ReadsShortBalance(r) =>
                pc'[r] = "done" /\ outcome'[r] = "InsufficientFunds"
          /\ (/\ req[r].op = "transfer"
              /\ pc[r] \in {"received", "check_destination", "fetch_source_meta"}
              /\ Steps(r)) => (log' = log /\ accounts' = accounts)]_vars

\* A transfer was refused for lack of funds by a source that holds some.
C6_Witness ==
    /\ \E r \in Reqs : outcome[r] = "InsufficientFunds"
    /\ \E a \in accounts \ {SERVICE_ACCOUNT_ID} : Balance(a) > 0

\* Transfer request r ends in this step.
TransferEnds(r) == req[r].op = "transfer" /\ Steps(r) /\ pc'[r] = "done"

\* C7 (as claimed): a transfer request with a valid amount whose destination
\* does not exist fails with DestinationNotFound, one whose destination
\* exists and whose source does not fails with SourceNotFound, and neither
\* creates a record or an account.
C7_NotFoundKinds ==
    [][\A r \in Reqs : (TransferEnds(r) /\ req[r].amount > 0) =>
          /\ req[r].destination \notin accounts =>
                /\ outcome'[r] = "DestinationNotFound"
                /\ log' = log /\ accounts' = accounts
          /\ (req[r].destination \in accounts /\ req[r].source \notin accounts) =>
                /\ outcome'[r] = "SourceNotFound"
                /\ log' = log /\ accounts' = accounts]_vars

\* C7 (amended): the same, for requests whose source is not the service
\* account and differs from the destination.
C7_NotFoundKindsAfterPreChecks ==
    [][\A r \in Reqs :
          (/\ TransferEnds(r)
           /\ req[r].amount > 0
           /\ req[r].source # SERVICE_ACCOUNT_ID
           /\ req[r].source # req[r].destination) =>
          /\ req[r].destination \notin accounts =>
                /\ outcome'[r] = "DestinationNotFound"
                /\ log' = log /\ accounts' = accounts
          /\ (req[r].destination \in accounts /\ req[r].source \notin accounts) =>
                /\ outcome'[r] = "SourceNotFound"
                /\ log' = log /\ accounts' = accounts]_vars

\* Both kinds have been answered.
C7_Witness ==
    /\ \E r \in Reqs : outcome[r] = "DestinationNotFound"
    /\ \E r \in Reqs : outcome[r] = "SourceNotFound"

\* C8: the outcome of a transfer request is the error of the first check that
\* fails, in the order amount > 0, source is not the service account, source
\* differs from destination, destination exists, source exists, balance >=
\* amount; and a transfer is appended only when all six hold.
C8_FirstFailingCheck ==
    [][\A r \in Reqs : (req[r].op = "transfer" /\ Steps(r)) =>
          LET q == req[r]
              fails == [kind \in {"InvalidAmount", "ServiceAccountAsSource",
                                  "SelfTransfer", "DestinationNotFound",
                                  "SourceNotFound", "InsufficientFunds"} |->
                           pc'[r] = "done" /\ outcome'[r] = kind]
          IN /\ pc[r] = "received" =>
                   IF q.amount <= 0 THEN fails["InvalidAmount"]
                   ELSE IF q.source = SERVICE_ACCOUNT_ID
                        THEN fails["ServiceAccountAsSource"]
                   ELSE IF q.source = q.destination THEN fails["SelfTransfer"]
                   ELSE pc'[r] = "check_destination" /\ outcome'[r] = "none"
             /\ pc[r] = "check_destination" =>
                   IF q.destination \notin accounts
                   THEN fails["DestinationNotFound"]
                   ELSE pc'[r] = "fetch_source_meta" /\ outcome'[r] = "none"
             /\ pc[r] = "fetch_source_meta" =>
                   IF q.source \notin accounts THEN fails["SourceNotFound"]
                   ELSE IF Balance(q.source) < q.amount
                        THEN fails["InsufficientFunds"]
                   ELSE pc'[r] = "insert_transfer" /\ outcome'[r] = "none"
             /\ log' # log =>
                   /\ q.amount > 0
                   /\ q.source # SERVICE_ACCOUNT_ID
                   /\ q.source # q.destination
                   /\ q.destination \in accounts
                   /\ q.source \in accounts
                   /\ Balance(q.source) >= q.amount]_vars

\* One transfer passed all six checks and was appended, and another request
\* was refused by a check.
C8_Witness ==
    /\ \E r \in Reqs : outcome[r] = "ok" /\ "source_balance" \in DOMAIN result[r]
    /\ \E r \in Reqs : outcome[r] \in {"ServiceAccountAsSource", "SelfTransfer",
                                       "SourceNotFound", "InsufficientFunds"}

\* The body of a transfer request fails one of the checks that need no store.
FailsPreCheck(q) ==
    \/ q.amount <= 0
    \/ q.source = SERVICE_ACCOUNT_ID
    \/ q.source = q.destination

\* C9: a transfer request with amount <= 0, with the service account as
\* source, or with source equal to destination is rejected in the handler's
\* first step, with no store round-trip issued and the transfer log, the
\* accounts and the connection pool unchanged.
C9_FastFail ==
    [][\A r \in Reqs :
          (req[r].op = "transfer" /\ FailsPreCheck(req[r]) /\ Steps(r)) =>
          /\ pc[r] = "received" /\ pc'[r] = "done"
          /\ outcome'[r] \in {"InvalidAmount", "ServiceAccountAsSource", "SelfTransfer"}
          /\ trips'[r] = 0
          /\ log' = log /\ accounts' = accounts /\ free' = free /\ tx' = tx]_vars

\* A request was rejected with no round-trip while the store holds accounts
\* and transfers.
C9_Witness ==
    /\ \E r \in Reqs :
          /\ outcome[r] \in {"InvalidAmount", "ServiceAccountAsSource", "SelfTransfer"}
          /\ trips[r] = 0
    /\ Len(log) >= 1

\* Create request r ends in this step, and no other request created its
\* identifier.
CreateEnds(r) ==
    /\ req[r].op = "create"
    /\ Steps(r)
    /\ pc'[r] = "done"
    /\ req[r].account_id \notin accounts \/ pc[r] = "read_new_account"

\* C10 (as claimed): a create request for an identifier that does not exist
\* fails with NegativeBalance and creates nothing when its balance is < 0,
\* and otherwise succeeds: it commits, at which point the account exists with
\* the requested balance, and it answers that balance.
C10_CreateOutcome ==
    [][\A r \in Reqs :
          /\ CreateEnds(r) =>
                IF req[r].balance < 0
                THEN /\ outcome'[r] = "NegativeBalance"
                     /\ log' = log /\ accounts' = accounts
                ELSE /\ outcome'[r] = "ok"
                     /\ req[r].account_id \in accounts
                     /\ result'[r].balance = req[r].balance
          /\ (pc[r] = "commit" /\ Steps(r)) =>
                /\ req[r].account_id \in accounts'
                /\ AccountBalance(log', req[r].account_id, Len(log')) = req[r].balance]_vars

\* Create request r, whose identifier is an account created before, takes one
\* of the two steps that decide on it: its checks before the first await, or
\* its existence query.
DecidesOnExisting(r) ==
    /\ req[r].op = "create"
    /\ req[r].account_id \in accounts \ {SERVICE_ACCOUNT_ID}
    /\ pc[r] \in {"received", "check_exists"}
    /\ Steps(r)

\* C11 (as claimed): a create request for an identifier that already exists
\* is rejected with AlreadyExists whatever initial balance it carries, and
\* changes neither the accounts nor the log.
C11_ExistingRejected ==
    [][\A r \in Reqs : DecidesOnExisting(r) =>
          /\ pc'[r] = "done" => outcome'[r] = "AlreadyExists"
          /\ pc[r] = "check_exists" => pc'[r] = "done"
          /\ log' = log /\ accounts' = accounts /\ tx' = tx]_vars

\* C11: a create request with an initial balance >= 0 for an identifier that
\* already exists is rejected with AlreadyExists at its existence query, and
\* changes neither the accounts nor the log.
C11_ExistingRejectedNonNegative ==
    [][\A r \in Reqs : (DecidesOnExisting(r) /\ req[r].balance >= 0) =>
          /\ pc'[r] = "done" => outcome'[r] = "AlreadyExists"
          /\ pc[r] = "check_exists" => pc'[r] = "done"
          /\ log' = log /\ accounts' = accounts /\ tx' = tx]_vars

\* A create request was rejected with AlreadyExists while the log holds a
\* transfer.
C11_Witness ==
    /\ \E r \in Reqs : outcome[r] = "AlreadyExists"
    /\ Len(log) >= 1

\* The seed transfers of account a: from the service account to a.
Seeds(a) ==
    {i \in 1..Len(log) : log[i].source = SERVICE_ACCOUNT_ID /\ log[i].destination = a}

\* C12: account creation and its seed transfer commit together or not at
\* all, also when awaits of a create request raise: a step of a create request
\* either leaves accounts and log alone, or adds its account together with,
\* for a balance b > 0, exactly one transfer of b from the service account to
\* it, and for a balance 0, no transfer; and in every state an account has at
\* most one seed transfer and an identifier that is no account has none.
C12_CreateAtomic ==
    [][/\ \A r \in Reqs : (req[r].op = "create" /\ Steps(r)) =>
              \/ accounts' = accounts /\ log' = log
              \/ /\ req[r].account_id \notin accounts
                 /\ accounts' = accounts \cup {req[r].account_id}
                 /\ IF req[r].balance > 0
                    THEN /\ Len(log') = Len(log) + 1
                         /\ SubSeq(log', 1, Len(log)) = log
                         /\ log'[Len(log')].source = SERVICE_ACCOUNT_ID
                         /\ log'[Len(log')].destination = req[r].account_id
                         /\ log'[Len(log')].amount = req[r].balance
                    ELSE log' = log
       /\ \A a \in Ids \ {SERVICE_ACCOUNT_ID} :
              IF a \in accounts'
              THEN Cardinality(Seeds(a)') <= 1
              ELSE Seeds(a)' = {}]_vars

\* A create request failed inside its transaction, after its account insert,
\* while another account was created with a seed transfer.
C12_Witness ==
    /\ \E r \in Reqs : outcome[r] = "Internal" /\ trips[r] >= 2
    /\ \E a \in accounts : Seeds(a) # {}

\* No other create request in flight names the identifier of request r.
AloneOnIdentifier(r) ==
    \A o \in Reqs \ {r} :
        ~(req[o].op = "create" /\ req[o].account_id = req[r].account_id)

\* C13 (as claimed): create requests for different identifiers that do not
\* exist yet, with balances >= 0, all succeed however they interleave: such a
\* request, with no other create request for its identifier, ends with
\* success.
C13_ConcurrentCreatesSucceed ==
    [][\A r \in Reqs :
          (CreateEnds(r) /\ req[r].balance >= 0 /\ AloneOnIdentifier(r)) =>
          outcome'[r] = "ok"]_vars

\* The change a transfer of amount from source to destination makes to the
\* balance of account a.
Delta(a, source, destination, amount) ==
    (IF a = destination THEN amount ELSE 0) - (IF a = source THEN amount ELSE 0)

\* C14: a successful transfer of a from X to Y changes the derived balances
\* by exactly a: the step that records it lowers the balance of X by a, raises
\* that of Y by a and leaves every other account's balance alone; and the
\* balances the request answers are those before its record minus a for X and
\* plus a for Y.
C14_TransferMovesAmount ==
    [][\A r \in Reqs : (req[r].op = "transfer" /\ Steps(r)) =>
          /\ log' # log =>
                \A a \in accounts :
                    AccountBalance(log', a, Len(log')) = Balance(a) + Delta(a, req[r].source,
                                                     req[r].destination, req[r].amount)
          /\ (pc'[r] = "done" /\ outcome'[r] = "ok") =>
                /\ result'[r].source_balance =
                       AccountBalance(log, req[r].source, ts[r] - 1) - req[r].amount
                /\ result'[r].destination_balance =
                       AccountBalance(log, req[r].destination, ts[r] - 1) + req[r].amount]_vars

\* A transfer succeeded and answered a destination balance that another
\* credit had already raised.
C14_Witness ==
    \E r \in Reqs :
        /\ outcome[r] = "ok"
        /\ "destination_balance" \in DOMAIN result[r]
        /\ result[r].destination_balance >= 2
        /\ result[r].source_balance >= 1

\* C15: a get-balance request for an identifier that is no account answers
\* NotFound; for an account it answers the account's balance, and since no
\* step removes an account, it does so in every later state.
C15_BalanceOfAccountsOnly ==
    [][/\ \A r \in Reqs : (req[r].op = "balance" /\ pc[r] = "fetch_meta" /\ Steps(r)) =>
              IF req[r].account_id \in accounts
              THEN /\ outcome'[r] = "ok"
                   /\ result'[r] = [account_id |-> req[r].account_id,
                                    balance |-> Balance(req[r].account_id)]
              ELSE outcome'[r] = "NotFound" /\ result'[r] = NoResult
       /\ accounts \subseteq accounts']_vars

\* One get-balance request was answered NotFound and another, after the
\* account was created with funds, a balance.
C15_Witness ==
    /\ \E r \in Reqs : outcome[r] = "NotFound" /\ trips[r] = 1
    /\ \E r \in Reqs :
          /\ outcome[r] = "ok" /\ trips[r] = 1
          /\ result[r].account_id # SERVICE_ACCOUNT_ID
          /\ result[r].balance >= 1

\* Get-balance requests r1 and r2 asked for the same account and read with
\* the same transfers and accounts committed: the log only grows and so do the
\* accounts, so equal numbers mean nothing was committed between the reads.
SameRead(r1, r2) ==
    /\ read_at[r1] # NoRead
    /\ read_at[r1] = read_at[r2]

\* C16: get-balance is a pure read: its steps change neither the log nor the
\* accounts, and two get-balance requests for the same account with no
\* transfer or account committed between their reads get the same answer.
C16_PureRead ==
    [][/\ \A r \in Reqs : (req[r].op = "balance" /\ Steps(r)) =>
              log' = log /\ accounts' = accounts /\ tx' = tx /\ free' = free
       /\ \A r1, r2 \in Reqs :
              SameRead(r1, r2)' => outcome'[r1] = outcome'[r2] /\ result'[r1] = result'[r2]]_vars

\* Two get-balance requests read the balance of a funded account with nothing
\* committed between them.
C16_Witness ==
    \E r1, r2 \in Reqs :
        /\ r1 # r2
        /\ SameRead(r1, r2)
        /\ outcome[r1] = "ok" /\ result[r1].balance >= 1
        /\ read_at[r1].account_id # SERVICE_ACCOUNT_ID

\* Transfer request r has read that its destination exists and has not yet
\* read its source's balance and index.
BetweenValidationReads(r) == req[r].op = "transfer" /\ pc[r] = "fetch_source_meta"

\* C18 (as claimed): the destination's existence and the source's balance and
\* index are read in one snapshot: while a transfer request stands between the
\* two reads, no step of another request commits a transfer or an account.
C18_SingleSnapshot ==
    [][\A r \in Reqs : (BetweenValidationReads(r) /\ ~Steps(r)) =>
          log' = log /\ accounts' = accounts]_vars

\* Transfer record row is well formed with the accounts accts.
WellFormed(accts, row) ==
    /\ row.amount >= 1
    /\ row.source # row.destination
    /\ row.destination \in accts
    /\ row.source \in accts

\* C19: every record of the log is well formed, a step that adds one adds a
\* record of a transfer request with its source, never the service account,
\* or the seed record of a create request from the service account to the new
\* account, and no step changes or removes a committed record.
C19_WellFormedLog ==
    [][/\ Len(log') >= Len(log)
       /\ SubSeq(log', 1, Len(log)) = log
       /\ \A i \in 1..Len(log') : WellFormed(accounts', log'[i])
       /\ \A r \in Reqs : (Steps(r) /\ log' # log) =>
              /\ Len(log') = Len(log) + 1
              /\ IF req[r].op = "transfer"
                 THEN /\ log'[Len(log')].source = req[r].source
                      /\ log'[Len(log')].source # SERVICE_ACCOUNT_ID
                 ELSE /\ req[r].op = "create"
                      /\ log'[Len(log')].source = SERVICE_ACCOUNT_ID
                      /\ log'[Len(log')].destination = req[r].account_id]_vars

\* The log holds a seed record and a record of a transfer request.
C19_Witness ==
    /\ \E i \in 1..Len(log) : log[i].source = SERVICE_ACCOUNT_ID
    /\ \E i \in 1..Len(log) : log[i].source # SERVICE_ACCOUNT_ID

\* C20 (as claimed): every create request with a balance > 0 completes in the
\* end, whatever the size of the pool and however many creates are in flight.
C20_FundedCreateCompletes ==
    \A r \in Reqs :
        (req[r].op = "create" /\ req[r].balance > 0) ~> (pc[r] = "done")

\* C17 (as claimed): every transfer request ends, with success or an error,
\* under every interleaving with other requests: none waits forever.
C17_TransferTerminates ==
    \A r \in Reqs : (req[r].op = "transfer") ~> (pc[r] = "done")

\* Create request r is in flight for an identifier that another request has
\* made an account: r lost the race for it, or came after it.
LostIdentifier(r) ==
    /\ req[r].op = "create"
    /\ req[r].account_id \in accounts
    /\ pc[r] # "read_new_account"

\* C21: of the create requests for one identifier that does not exist yet, at
\* most one creates the account and commits a seed transfer: a step that
\* commits for a create request adds its identifier, which was no account,
\* with at most one record, and leaves the account's balance at the request's
\* initial balance; a create request whose identifier another one has made an
\* account writes nothing and ends with an error; and no account ever has two
\* seed transfers.
C21_OneCreateWins ==
    [][/\ \A r \in Reqs : (req[r].op = "create" /\ Steps(r)) =>
              /\ (accounts' # accounts \/ log' # log) =>
                    /\ req[r].account_id \notin accounts
                    /\ accounts' = accounts \cup {req[r].account_id}
                    /\ Len(log') <= Len(log) + 1
                    /\ AccountBalance(log', req[r].account_id, Len(log')) = req[r].balance
              /\ LostIdentifier(r) =>
                    /\ accounts' = accounts /\ log' = log
                    /\ pc'[r] = "done" =>
                          outcome'[r] \in {"NegativeBalance", "AlreadyExists", "Internal"}
       /\ \A a \in accounts' \ {SERVICE_ACCOUNT_ID} : Cardinality(Seeds(a)') <= 1]_vars

\* A create request passed the existence check and then failed at its account
\* insert, because another request had created the account with a seed
\* transfer meanwhile.
C21_Witness ==
    /\ \E r \in Reqs : outcome[r] = "Internal" /\ trips[r] = 2
    /\ \E a \in accounts : Seeds(a) # {}

====
